---- MODULE Spec2Model ----
(***************************************************************************)
(* Model of the Ansible module deploy_with_rollback                         *)
(* (lessons/04-ansible/267-ansible-advanced-automation/library).            *)
(*                                                                          *)
(* The file system of one application is <app_path>/releases/<version>/     *)
(* and the symlink <app_path>/current.  One deploy run (main -> deploy) is  *)
(* a sequential flow; it is cut into steps at every call of the operating   *)
(* system, so that the states another process can observe are states of     *)
(* the model.  Every external call (wget, tar, unlink, symlink, systemctl,  *)
(* requests.get, rmtree) succeeds or fails nondeterministically.            *)
(*                                                                          *)
(* Release directories have distinct modification times, so `releases` is   *)
(* a sequence without repetition, oldest first.  `current` is a symlink or  *)
(* absent: nothing in the module makes it a plain directory, so the rmtree  *)
(* branches of create_symlink and rollback are not taken.                   *)
(*                                                                          *)
(* Two further specifications share the module: TwoAppsSpec, the same       *)
(* module run for two app_path roots with the file system keyed by path,    *)
(* and WebSpec, the Flask application of                                    *)
(* lessons/06-ci-cd-gitops/990-python-security-pipeline/app.py.  KafkaSpec  *)
(* is the EventConsumer of lessons/13-messaging-communication/              *)
(* 276-distributed-messaging-systems/kafka/examples/kafka_example.py.       *)
(***************************************************************************)
EXTENDS Integers, Sequences, FiniteSets, TLC

\* ------------------------------------------------------------- bounds
NumVersions == 2
MaxKeep == 1
\* release directories on disk, and the largest keep_versions, when cleanup
\* is looked at on its own
MaxReleases == 5
MaxRetained == 2
\* the one non-zero health_check_timeout that is tried, in seconds
MaxTimeout == 15
\* versions deployed to each of the two applications of TwoAppsSpec
MaxAppVersions == 2
\* rows of the table users of the web application
MaxUsers == 2
\* KafkaSpec: messages in the partition, records of one poll, pool threads
MaxMessages == 3
MaxPollRecords == 2
MaxWorkers == 2

\* ---------------------------------------------------- program constants
\* time.sleep(10) between two probes, requests.get(..., timeout=10): seconds
PollInterval == 10
RequestTimeout == 10

Versions == 1..NumVersions
\* Python's None: no symlink, no previous version, key absent from the record
None == 0

Timeouts == {0, MaxTimeout}

VARIABLES
    releases,              \* directories under releases/, oldest mtime first
    partial,               \* directories whose download/extraction did not complete
    current,               \* version the symlink `current` names, or None
    pc,                    \* position of the run
    params,                \* module.params of the run
    current_version,       \* local of deploy(): the version read at the start
    changed,               \* self.changed
    rollback_occurred,     \* local of deploy()
    health_ok,             \* local of deploy(): "unset", "true", "false"
    health_check_status,   \* local of deploy()
    elapsed,               \* time.time() - start_time inside health_check
    rb_from,               \* which rollback call is running: "health" / "except"
    rb_result,             \* what the rollback calls of the run returned
    error,                 \* str(e) of the exception caught in deploy()
    failure,               \* message of fail_json or of an uncaught exception
    calls,                 \* functions and external commands invoked by the run
    start,                 \* directories under releases/ at the start of the run
    result,                \* record given to exit_json, or NoResult
    last_version,          \* version of the latest call of the module
    config_url,            \* health_check_url as the caller wrote it
    rb_restart,            \* what restart_service returned inside rollback
    probes,                \* the requests of health_check: when, and the answer
    service,               \* what systemctl answered to the restart of deploy()
    disk,                  \* TwoAppsSpec: what is at each path of the file system
    runs,                  \* TwoAppsSpec: the run of the module on each app_path
    app,                   \* WebSpec: the process of app.py and its database
    last_response,         \* WebSpec: the answer to the latest request
    log,                   \* KafkaSpec: event_type of each message of the partition
    position,              \* KafkaSpec: messages the consumer has polled
    committed,             \* KafkaSpec: the offset committed for the group
    consumer,              \* KafkaSpec: where the thread of start_consuming is
    message_batch,         \* KafkaSpec: polled messages not yet submitted
    queue,                 \* KafkaSpec: submitted calls no pool thread has taken
    workers,               \* KafkaSpec: what each pool thread is doing
    metrics,               \* KafkaSpec: self.metrics of the consumer
    processed              \* KafkaSpec: messages whose process_event has returned

\* the one application of Spec
deployvars ==
    <<releases, partial, current, pc, params, current_version, changed,
      rollback_occurred, health_ok, health_check_status, elapsed, rb_from,
      rb_result, error, failure, calls, start, result, last_version,
      config_url, rb_restart, probes, service>>
twovars == <<disk, runs>>
webvars == <<app, last_response>>
kafkavars == <<log, position, committed, consumer, message_batch, queue,
               workers, metrics, processed>>
\* what a run on one app_path has nothing to do with
elsewhere == <<twovars, webvars, kafkavars>>

vars == <<deployvars, twovars, webvars, kafkavars>>

fs == <<releases, partial, current>>
\* what the caller asked for
asked == <<last_version, config_url>>
\* what the run keeps of its calls of the service controller and of the URL
traced == <<rb_restart, probes, service>>

\* ------------------------------------------------------------ helpers
Range(s) == {s[i] : i \in 1..Len(s)}

Reverse(s) == [i \in 1..Len(s) |-> s[Len(s) + 1 - i]]

RemoveAll(s, xs) == SelectSeq(s, LAMBDA y : y \notin xs)

\* os.path.exists(<app_path>/releases/<v>)
Exists(v) == v \in Range(releases)

NoResult == [returned |-> FALSE]

\* the values exit_json / fail_json leave to the caller
Terminal == {"idle", "done", "fatal"}

\* the state of a process that has not started: the locals of the run
NoRun ==
    /\ current_version = None
    /\ changed = FALSE
    /\ rollback_occurred = FALSE
    /\ health_ok = "unset"
    /\ health_check_status = ""
    /\ elapsed = 0
    /\ rb_from = "none"
    /\ rb_result = <<>>
    /\ error = ""
    /\ failure = ""
    /\ calls = <<>>
    /\ start = <<>>
    /\ result = NoResult
    /\ rb_restart = "unset"
    /\ probes = <<>>
    /\ service = "unset"

\* ------------------------------------------------------------ main()
\* what the caller writes in the task: health_check_url may be left out
\* (health_check_timeout is read only when there is a URL to probe)
Configs ==
    {c \in [version : Versions,
            artifact_url : BOOLEAN,
            health_check_url : {"absent", "", "url"},
            health_check_timeout : Timeouts,
            rollback_on_failure : BOOLEAN,
            keep_versions : 1..MaxKeep,
            service_name : BOOLEAN] :
        c.health_check_url = "" => c.health_check_timeout = MaxTimeout}

NoParams ==
    [version |-> None, artifact_url |-> FALSE, health_check_url |-> "",
     health_check_timeout |-> 0, rollback_on_failure |-> FALSE,
     keep_versions |-> 0, service_name |-> FALSE]

\* argument_spec: the default of health_check_url is a URL, not the empty string
ArgumentSpec(config) ==
    [config EXCEPT !.health_check_url =
        IF config.health_check_url = "absent" THEN "url" ELSE @]

\* ------------------------------------------------------------ Init
\* the paths of TwoAppsSpec hold nothing and no run is started on them
NoApps ==
    /\ disk = <<>>
    /\ runs = <<>>

\* no consumer is constructed
NoKafka ==
    /\ log = <<>>
    /\ position = 0
    /\ committed = 0
    /\ consumer = "none"
    /\ message_batch = <<>>
    /\ queue = <<>>
    /\ workers = <<>>
    /\ metrics = [events_processed |-> 0, events_failed |-> 0]
    /\ processed = {}

\* the web application is not started
NoWeb ==
    /\ app = [running |-> FALSE]
    /\ last_response = [route |-> ""]

\* nothing is deployed and no run is started
NoDeployment ==
    /\ releases = <<>>
    /\ partial = {}
    /\ current = None
    /\ pc = "idle"
    /\ params = NoParams
    /\ NoRun
    /\ last_version = None
    /\ config_url = "absent"

Init ==
    /\ NoDeployment
    /\ NoApps
    /\ NoWeb
    /\ NoKafka

\* ------------------------------------------------------ get_current_version
get_current_version == current

\* ------------------------------------------------------------ deploy: start
\* (mutant: the comparison with the current version inverted)
AlreadyDeployed_NotCurrent(p, cv) == Exists(p.version) /\ cv # p.version

\* the test of "already deployed"
AlreadyDeployed(p, cv) == Exists(p.version) /\ cv = p.version

AlreadyDeployedResult(p) ==
    [returned |-> TRUE,
     changed |-> FALSE,
     version_deployed |-> p.version,
     rollback_occurred |-> FALSE,
     health_check_status |-> "Already deployed",
     previous_version |-> None]

\* main() builds the module, deploy() reads the current version and returns at
\* once when the version is already deployed
Start ==
    /\ pc = "idle"
    /\ \E config \in Configs :
         LET p == ArgumentSpec(config)
             cv == get_current_version
         IN /\ params' = p
            /\ current_version' = cv
            /\ start' = releases
            /\ last_version' = p.version
            /\ config_url' = config.health_check_url
            /\ IF AlreadyDeployed(p, cv)
                 THEN /\ pc' = "done"
                      /\ result' = AlreadyDeployedResult(p)
                 ELSE /\ pc' = "download_artifact"
                      /\ result' = NoResult
    /\ changed' = FALSE
    /\ rollback_occurred' = FALSE
    /\ health_ok' = "unset"
    /\ health_check_status' = ""
    /\ elapsed' = 0
    /\ rb_from' = "none"
    /\ rb_result' = <<>>
    /\ error' = ""
    /\ failure' = ""
    /\ calls' = <<>>
    /\ rb_restart' = "unset"
    /\ probes' = <<>>
    /\ service' = "unset"
    /\ UNCHANGED <<fs, elsewhere>>

\* exit_json / fail_json / an uncaught exception: the process of the run ends
\* and only the file system remains
Exit ==
    /\ pc \in {"done", "fatal"}
    /\ pc' = "idle"
    /\ params' = NoParams
    /\ current_version' = None
    /\ changed' = FALSE
    /\ rollback_occurred' = FALSE
    /\ health_ok' = "unset"
    /\ health_check_status' = ""
    /\ elapsed' = 0
    /\ rb_from' = "none"
    /\ rb_result' = <<>>
    /\ error' = ""
    /\ failure' = ""
    /\ calls' = <<>>
    /\ start' = <<>>
    /\ result' = NoResult
    /\ config_url' = "absent"
    /\ rb_restart' = "unset"
    /\ probes' = <<>>
    /\ service' = "unset"
    /\ UNCHANGED <<fs, last_version, elsewhere>>

\* ------------------------------------------------------ control transfers
\* an exception raised inside the try block of deploy()
Raise(msg) ==
    /\ pc' = "except"
    /\ error' = msg
    /\ UNCHANGED <<failure, result>>

\* module.fail_json, or an exception nobody catches: the process ends, no record
Fatal(msg) ==
    /\ pc' = "fatal"
    /\ failure' = msg
    /\ result' = NoResult
    /\ UNCHANGED error

\* neither: the step returns to deploy()
Continue == UNCHANGED <<error, failure, result>>

\* (mutant: the failure is raised as an exception into the try block of deploy)
StagingFails_Raised(msg) == Raise(msg)

\* download_artifact reports a failed download or extraction with fail_json,
\* inside its try block and in its except clause
StagingFails(msg) == Fatal(msg)

Call(names) == calls' = calls \o names

\* ------------------------------------------------------ download_artifact
\* (mutant: the directory of the version is not looked for)
StagingNeeded_IgnoresDirectory(p) == p.artifact_url

\* the two early returns: no artifact_url, or the directory already exists
StagingNeeded(p) == p.artifact_url /\ ~Exists(p.version)

StagingOutcomes == {"ok", "makedirs_error", "wget_failed", "tar_failed"}

download_artifact ==
    /\ pc = "download_artifact"
    /\ IF ~StagingNeeded(params)
         THEN /\ Call(<<"download_artifact">>)
              /\ pc' = "create_symlink"
              /\ Continue
              /\ UNCHANGED <<releases, partial, changed>>
         ELSE \E outcome \in StagingOutcomes :
                CASE outcome = "makedirs_error" ->
                       \* os.makedirs is outside the try of download_artifact
                       /\ Call(<<"download_artifact">>)
                       /\ Raise("makedirs failed")
                       /\ UNCHANGED <<releases, partial, changed>>
                  [] outcome = "wget_failed" ->
                       /\ Call(<<"download_artifact", "wget">>)
                       /\ releases' = Append(releases, params.version)
                       /\ partial' = partial \cup {params.version}
                       /\ StagingFails("Failed to download artifact")
                       /\ UNCHANGED changed
                  [] outcome = "tar_failed" ->
                       /\ Call(<<"download_artifact", "wget", "tar">>)
                       /\ releases' = Append(releases, params.version)
                       /\ partial' = partial \cup {params.version}
                       /\ StagingFails("Failed to extract artifact")
                       /\ UNCHANGED changed
                  [] outcome = "ok" ->
                       /\ Call(<<"download_artifact", "wget", "tar">>)
                       /\ releases' = Append(releases, params.version)
                       /\ changed' = TRUE
                       /\ pc' = "create_symlink"
                       /\ Continue
                       /\ UNCHANGED partial
    /\ UNCHANGED <<current, params, current_version, rollback_occurred, health_ok,
                   health_check_status, elapsed, rb_from, rb_result, start,
                   asked, elsewhere, traced>>

\* ------------------------------------------------------ create_symlink
\* os.path.islink(current_link)
IsLink == current # None

\* os.remove(current_link) when the link exists; it raises or removes the link
create_symlink_remove ==
    /\ pc = "create_symlink"
    /\ \/ /\ Call(<<"create_symlink">> \o (IF IsLink THEN <<"remove">> ELSE <<>>))
          /\ current' = None
          /\ pc' = "create_symlink_link"
          /\ Continue
       \/ /\ IsLink
          /\ Call(<<"create_symlink", "remove">>)
          /\ Raise("remove failed")
          /\ UNCHANGED current
    /\ UNCHANGED <<releases, partial, params, current_version, changed,
                   rollback_occurred, health_ok, health_check_status, elapsed,
                   rb_from, rb_result, start, asked, elsewhere, traced>>

\* os.symlink(version_dir, current_link): the target need not exist
create_symlink_link ==
    /\ pc = "create_symlink_link"
    /\ Call(<<"symlink">>)
    /\ \/ /\ current' = params.version
          /\ changed' = TRUE
          /\ pc' = "restart_service"
          /\ Continue
       \/ /\ Raise("symlink failed")
          /\ UNCHANGED <<current, changed>>
    /\ UNCHANGED <<releases, partial, params, current_version, rollback_occurred,
                   health_ok, health_check_status, elapsed, rb_from, rb_result,
                   start, asked, elsewhere, traced>>

\* ------------------------------------------------------ restart_service
RestartOutcomes == {"active", "restart_failed", "inactive", "exception"}

\* (mutant: subprocess.run of systemctl never returns)
SystemctlOutcomes_NeverReturns(p) == {}

\* what systemctl can answer for the parameters of the run
SystemctlOutcomes(p) == IF p.service_name THEN RestartOutcomes ELSE {"not called"}

\* (mutant: the answer of systemctl is-active is not looked at)
restart_service_IgnoresActive(p, outcome) ==
    IF ~p.service_name THEN TRUE ELSE outcome \in {"active", "inactive"}

\* the value restart_service returns
restart_service(p, outcome) == IF ~p.service_name THEN TRUE ELSE outcome = "active"

RestartCalls(p) ==
    <<"restart_service">> \o (IF p.service_name THEN <<"systemctl">> ELSE <<>>)

\* deploy(): if not self.restart_service(): raise Exception(...)
deploy_restart ==
    /\ pc = "restart_service"
    /\ Call(RestartCalls(params))
    /\ \E outcome \in SystemctlOutcomes(params) :
         /\ service' = outcome
         /\ IF restart_service(params, outcome)
              THEN pc' = "health_check" /\ Continue
              ELSE Raise("Failed to restart service")
    /\ UNCHANGED <<fs, params, current_version, changed, rollback_occurred,
                   health_ok, health_check_status, elapsed, rb_from, rb_result,
                   start, asked, elsewhere, rb_restart, probes>>

\* ------------------------------------------------------ health_check
\* (mutant: the test of the URL is missing)
HealthCheckEnabled_Always(p) == TRUE

\* if not self.params.get('health_check_url'): return True, ...
HealthCheckEnabled(p) == p.health_check_url \notin {"", "absent"}

\* the first lines of health_check: nothing is requested without a URL
health_check_enter ==
    /\ pc = "health_check"
    /\ Call(<<"health_check">>)
    /\ elapsed' = 0
    /\ service' = "unset"
    /\ IF ~HealthCheckEnabled(params)
         THEN /\ health_ok' = "true"
              /\ health_check_status' = "No health check URL provided"
              /\ pc' = "health_done"
         ELSE /\ pc' = "health_loop"
              /\ UNCHANGED <<health_ok, health_check_status>>
    /\ UNCHANGED <<fs, params, current_version, changed, rollback_occurred,
                   rb_from, rb_result, error, failure, start, result, asked, elsewhere,
                   rb_restart, probes>>

Responses == {"200", "500", "exception"}

\* (mutant: <= for <)
LoopContinues_Inclusive(p, t) == t <= p.health_check_timeout

\* while time.time() - start_time < timeout
LoopContinues(p, t) == t < p.health_check_timeout

\* one turn of the while loop: the test, one request, one sleep
health_check_loop ==
    /\ pc = "health_loop"
    /\ IF LoopContinues(params, elapsed)
         THEN \E d \in {0, RequestTimeout}, response \in Responses :
                /\ Call(<<"get">>)
                /\ probes' = Append(probes, [at |-> elapsed, response |-> response])
                /\ IF response = "200"
                     THEN /\ elapsed' = elapsed + d
                          /\ health_ok' = "true"
                          /\ health_check_status' = "Health check passed"
                          /\ pc' = "health_done"
                     ELSE /\ elapsed' = elapsed + d + PollInterval
                          /\ UNCHANGED <<health_ok, health_check_status, pc>>
         ELSE /\ health_ok' = "false"
              /\ health_check_status' = "Health check failed"
              /\ pc' = "health_done"
              /\ UNCHANGED <<elapsed, calls, probes>>
    /\ UNCHANGED <<fs, params, current_version, changed, rollback_occurred,
                   rb_from, rb_result, error, failure, start, result, asked, elsewhere,
                   rb_restart, service>>

\* (mutant: the `not` is missing)
RollbackAfterHealth_Inverted(p, ok) == ok = "true" /\ p.rollback_on_failure

\* deploy(): if not health_ok and rollback_on_failure
RollbackAfterHealth(p, ok) == ok = "false" /\ p.rollback_on_failure

\* health_check has returned: its requests are kept no longer
deploy_after_health ==
    /\ pc = "health_done"
    /\ IF RollbackAfterHealth(params, health_ok)
         THEN pc' = "rollback" /\ rb_from' = "health"
         ELSE pc' = "cleanup_old_versions" /\ UNCHANGED rb_from
    /\ probes' = <<>>
    /\ UNCHANGED <<fs, params, current_version, changed, rollback_occurred,
                   health_ok, health_check_status, elapsed, rb_result, error,
                   failure, calls, start, result, asked, elsewhere, rb_restart, service>>

\* ------------------------------------------------------ except Exception
\* (mutant: the except clause never rolls back)
RollbackOnException_Never(p, cv) == FALSE

\* (mutant: the except clause does not look at current_version)
RollbackOnException_NoPrevious(p, cv) == p.rollback_on_failure

\* deploy(): if rollback_on_failure and current_version
RollbackOnException(p, cv) == p.rollback_on_failure /\ cv # None

deploy_except ==
    /\ pc = "except"
    /\ IF RollbackOnException(params, current_version)
         THEN /\ pc' = "rollback"
              /\ rb_from' = "except"
              /\ Continue
         ELSE /\ Fatal("Deployment failed: " \o error)
              /\ UNCHANGED rb_from
    /\ service' = "unset"
    /\ UNCHANGED <<fs, params, current_version, changed, rollback_occurred,
                   health_ok, health_check_status, elapsed, rb_result, calls,
                   start, asked, elsewhere, rb_restart, probes>>

\* ------------------------------------------------------ rollback
\* (mutant: the directory of the previous version is not looked for)
RollbackPossible_NoDirectoryCheck(previous_version) == previous_version # None

\* the two guards at the head of rollback(previous_version)
RollbackPossible(previous_version) ==
    previous_version # None /\ Exists(previous_version)

\* (mutant: deploy() probes the URL again after rollback has returned)
RollbackReturns_Reprobes(value) ==
    /\ rb_result' = Append(rb_result, value)
    /\ rollback_occurred' = (rollback_occurred \/ value)
    /\ health_check_status' = health_check_status
    /\ pc' = "health_check"
    /\ Continue

\* the value rollback returns reaches the branch of deploy() that called it
RollbackReturns(value) ==
    /\ rb_result' = Append(rb_result, value)
    /\ rollback_occurred' = (rollback_occurred \/ value)
    /\ health_check_status' =
         IF rb_from = "health"
           THEN health_check_status \o
                  (IF value THEN " - Rolled back to previous version"
                            ELSE " - Rollback failed")
           ELSE "Deployment failed: " \o error \o
                  (IF value THEN " - Rolled back" ELSE " - Rollback failed")
    /\ pc' = "cleanup_old_versions"
    /\ Continue

\* an exception inside rollback: the call made in the try block lands in the
\* except clause, the call made in the except clause ends the process
RollbackRaises(msg) ==
    /\ IF rb_from = "health" THEN Raise(msg) ELSE Fatal(msg)
    /\ UNCHANGED <<rb_result, rollback_occurred, health_check_status>>

rollback_enter ==
    /\ pc = "rollback"
    /\ Call(<<"rollback">>)
    /\ IF RollbackPossible(current_version)
         THEN /\ pc' = "rollback_remove"
              /\ Continue
              /\ UNCHANGED <<rb_result, rollback_occurred, health_check_status>>
         ELSE RollbackReturns(FALSE)
    /\ UNCHANGED <<fs, params, current_version, changed, health_ok, elapsed,
                   rb_from, start, asked, elsewhere, traced>>

rollback_remove ==
    /\ pc = "rollback_remove"
    /\ \/ /\ Call(IF IsLink THEN <<"remove">> ELSE <<>>)
          /\ current' = None
          /\ pc' = "rollback_link"
          /\ Continue
          /\ UNCHANGED <<rb_result, rollback_occurred, health_check_status>>
       \/ /\ IsLink
          /\ Call(<<"remove">>)
          /\ RollbackRaises("remove failed")
          /\ UNCHANGED current
    /\ UNCHANGED <<releases, partial, params, current_version, changed, health_ok,
                   elapsed, rb_from, start, asked, elsewhere, traced>>

rollback_link ==
    /\ pc = "rollback_link"
    /\ Call(<<"symlink">>)
    /\ \/ /\ current' = current_version
          /\ pc' = "rollback_restart"
          /\ Continue
          /\ UNCHANGED <<rb_result, rollback_occurred, health_check_status>>
       \/ /\ RollbackRaises("symlink failed")
          /\ UNCHANGED current
    /\ UNCHANGED <<releases, partial, params, current_version, changed, health_ok,
                   elapsed, rb_from, start, asked, elsewhere, traced>>

\* the value rollback returns once the link is made; the value of
\* restart_service is dropped
RollbackValue(restarted) == TRUE

rollback_restart ==
    /\ pc = "rollback_restart"
    /\ Call(RestartCalls(params))
    /\ \E outcome \in SystemctlOutcomes(params) :
         LET restarted == restart_service(params, outcome)
         IN /\ rb_restart' = (IF restarted THEN "true" ELSE "false")
            /\ RollbackReturns(RollbackValue(restarted))
    /\ UNCHANGED <<fs, params, current_version, changed, health_ok, elapsed,
                   rb_from, start, asked, elsewhere, probes, service>>

\* ------------------------------------------------------ cleanup_old_versions
\* versions.sort(key=mtime, reverse=True): newest first
SortedVersions(dirs) == Reverse(dirs)

\* versions[keep_versions:]
ToRemove(dirs, keep_versions) ==
    SubSeq(SortedVersions(dirs), keep_versions + 1, Len(dirs))

\* the record deploy() returns
DeployResult ==
    [returned |-> TRUE,
     changed |-> changed,
     version_deployed |->
         IF rollback_occurred THEN current_version ELSE params.version,
     rollback_occurred |-> rollback_occurred,
     health_check_status |-> health_check_status,
     previous_version |->
         IF rollback_occurred /\ current_version # None
           THEN current_version ELSE None]

\* the loop of shutil.rmtree calls, which stops at the first one that raises,
\* and then the return of deploy()
cleanup_old_versions ==
    /\ pc = "cleanup_old_versions"
    /\ LET old == ToRemove(releases, params.keep_versions)
       IN \E n \in 0..Len(old) :
            LET removed == {old[i] : i \in 1..n}
            IN /\ releases' = RemoveAll(releases, removed)
               /\ partial' = partial \ removed
               /\ IF n = Len(old)
                    THEN /\ Call(<<"cleanup_old_versions">> \o
                                 [i \in 1..n |-> "rmtree"])
                         /\ result' = DeployResult
                         /\ pc' = "done"
                         /\ UNCHANGED <<error, failure>>
                    ELSE /\ Call(<<"cleanup_old_versions">> \o
                                 [i \in 1..(n + 1) |-> "rmtree"])
                         /\ Fatal("rmtree failed")
    /\ UNCHANGED <<current, params, current_version, changed, rollback_occurred,
                   health_ok, health_check_status, elapsed, rb_from, rb_result,
                   start, asked, elsewhere, traced>>

\* ------------------------------------------------------ specification
Next ==
    \/ Start
    \/ Exit
    \/ download_artifact
    \/ create_symlink_remove
    \/ create_symlink_link
    \/ deploy_restart
    \/ health_check_enter
    \/ health_check_loop
    \/ deploy_after_health
    \/ deploy_except
    \/ rollback_enter
    \/ rollback_remove
    \/ rollback_link
    \/ rollback_restart
    \/ cleanup_old_versions

Spec == Init /\ [][Next]_vars

\* ------------------------------------------------ cleanup on its own
\* Any set of release directories in any order of age, at the moment deploy()
\* calls cleanup_old_versions after a deployment of one of them that passed.
Orders(n) ==
    {s \in [1..n -> 1..MaxReleases] : \A i, j \in 1..n : s[i] = s[j] => i = j}

RetentionInit ==
    /\ releases \in UNION {Orders(n) : n \in 1..MaxReleases}
    /\ partial = {}
    /\ current \in Range(releases)
    /\ pc = "cleanup_old_versions"
    /\ \E keep \in 1..MaxRetained :
         params = [NoParams EXCEPT !.version = current, !.keep_versions = keep]
    /\ current_version = None
    /\ changed = TRUE
    /\ rollback_occurred = FALSE
    /\ health_ok = "true"
    /\ health_check_status = "No health check URL provided"
    /\ elapsed = 0
    /\ rb_from = "none"
    /\ rb_result = <<>>
    /\ error = ""
    /\ failure = ""
    /\ calls = <<>>
    /\ start = releases
    /\ result = NoResult
    /\ last_version = current
    /\ config_url = ""
    /\ rb_restart = "unset"
    /\ probes = <<>>
    /\ service = "unset"
    /\ NoApps
    /\ NoWeb
    /\ NoKafka

RetentionNext == cleanup_old_versions

RetentionSpec == RetentionInit /\ [][RetentionNext]_vars

\* ------------------------------------------------ one run to its end
\* One process of the module, started on an application that has no release
\* yet or one release under the pointer.  The process is the only thing that
\* runs: as long as it has a next statement, the statement is executed.
RunInit ==
    /\ releases \in {<<>>} \cup {<<v>> : v \in Versions}
    /\ partial = {}
    /\ current = (IF releases = <<>> THEN None ELSE releases[Len(releases)])
    /\ pc = "idle"
    /\ params = NoParams
    /\ NoRun
    /\ last_version = None
    /\ config_url = "absent"
    /\ NoApps
    /\ NoWeb
    /\ NoKafka

RunNext ==
    \/ Start
    \/ download_artifact
    \/ create_symlink_remove
    \/ create_symlink_link
    \/ deploy_restart
    \/ health_check_enter
    \/ health_check_loop
    \/ deploy_after_health
    \/ deploy_except
    \/ rollback_enter
    \/ rollback_remove
    \/ rollback_link
    \/ rollback_restart
    \/ cleanup_old_versions

RunSpec == RunInit /\ [][RunNext]_vars /\ WF_vars(RunNext)

\* ------------------------------------------------ two applications
\* The module run on two app_path roots, one run at a time on each.  A path
\* is the sequence of its names; disk maps the releases directory of each
\* root to its version directories, oldest first, and the link `current` of
\* each root to the path it names (the empty path: no link).  restart_service
\* and health_check touch no file: they are one step that passes or fails.
AppPaths == {"/opt/a", "/opt/b"}

AppVersions == 1..MaxAppVersions

\* os.path.join(path, name)
join(path, name) == Append(path, name)

\* os.path.basename(path)
basename(path) == path[Len(path)]

\* (mutant: the directory of releases is the same for every app_path)
releases_dir_Shared(app_path) == join(<<"/opt/a">>, "releases")

\* os.path.join(self.params['app_path'], 'releases')
releases_dir(app_path) == join(<<app_path>>, "releases")

\* os.path.join(self.params['app_path'], 'current')
current_link(app_path) == join(<<app_path>>, "current")

\* os.path.join(self.params['app_path'], 'releases', self.params['version'])
version_dir(app_path, version) == join(releases_dir(app_path), version)

NoLink == <<>>

NotStarted == [pc |-> "idle", version |-> None, current_version |-> None]

\* the two paths of each root that the module reads and writes
Paths == {join(<<a>>, name) : a \in AppPaths, name \in {"releases", "current"}}

TwoAppsInit ==
    /\ disk = [path \in Paths |-> <<>>]
    /\ runs = [a \in AppPaths |-> NotStarted]
    /\ NoDeployment
    /\ NoWeb
    /\ NoKafka

\* get_current_version of the run on app_path
get_current_version_at(app_path) ==
    IF disk[current_link(app_path)] = NoLink
      THEN None
      ELSE basename(disk[current_link(app_path)])

\* an exception in the try block of deploy(): rollback, or fail_json
except_at(a) == IF runs[a].current_version # None THEN "rollback" ELSE "idle"

Goto(a, label) ==
    runs' = [runs EXCEPT ![a] =
               IF label = "idle" THEN NotStarted ELSE [@ EXCEPT !.pc = label]]

\* main() and the first lines of deploy(), when the version is not the one
\* already deployed
deploy_at(a) ==
    /\ runs[a].pc = "idle"
    /\ \E version \in AppVersions :
         LET cv == get_current_version_at(a)
         IN /\ ~(version \in Range(disk[releases_dir(a)]) /\ cv = version)
            /\ runs' = [runs EXCEPT ![a] =
                          [pc |-> "download_artifact", version |-> version,
                           current_version |-> cv]]
    /\ UNCHANGED disk
    /\ UNCHANGED <<deployvars, webvars, kafkavars>>

download_artifact_at(a) ==
    /\ runs[a].pc = "download_artifact"
    /\ IF runs[a].version \in Range(disk[releases_dir(a)])
         THEN /\ Goto(a, "create_symlink")
              /\ UNCHANGED disk
         ELSE \/ /\ Goto(a, except_at(a))
                 /\ UNCHANGED disk
              \/ /\ disk' = [disk EXCEPT ![releases_dir(a)] =
                                           Append(@, runs[a].version)]
                 /\ \/ Goto(a, "create_symlink")
                    \/ Goto(a, "idle")
    /\ UNCHANGED <<deployvars, webvars, kafkavars>>

\* os.remove and os.symlink of create_symlink
create_symlink_at(a) ==
    /\ runs[a].pc = "create_symlink"
    /\ \/ /\ disk' = [disk EXCEPT ![current_link(a)] =
                                    version_dir(a, runs[a].version)]
          /\ Goto(a, "restart_service")
       \/ /\ disk' = [disk EXCEPT ![current_link(a)] = NoLink]
          /\ Goto(a, except_at(a))
       \/ /\ UNCHANGED disk
          /\ Goto(a, except_at(a))
    /\ UNCHANGED <<deployvars, webvars, kafkavars>>

\* restart_service and health_check, and the branch deploy() takes on them
restart_and_health_at(a) ==
    /\ runs[a].pc = "restart_service"
    /\ \/ Goto(a, "cleanup_old_versions")
       \/ Goto(a, "rollback")
       \/ Goto(a, except_at(a))
    /\ UNCHANGED disk
    /\ UNCHANGED <<deployvars, webvars, kafkavars>>

rollback_at(a) ==
    /\ runs[a].pc = "rollback"
    /\ LET previous_version == runs[a].current_version
       IN IF previous_version = None
             \/ previous_version \notin Range(disk[releases_dir(a)])
            THEN /\ UNCHANGED disk
                 /\ Goto(a, "cleanup_old_versions")
            ELSE \/ /\ disk' = [disk EXCEPT ![current_link(a)] =
                                              version_dir(a, previous_version)]
                    /\ Goto(a, "cleanup_old_versions")
                 \/ /\ disk' = [disk EXCEPT ![current_link(a)] = NoLink]
                    /\ Goto(a, "idle")
    /\ UNCHANGED <<deployvars, webvars, kafkavars>>

cleanup_old_versions_at(a) ==
    /\ runs[a].pc = "cleanup_old_versions"
    /\ \E keep_versions \in 1..MaxKeep :
         disk' = [disk EXCEPT ![releases_dir(a)] =
                    RemoveAll(@, Range(ToRemove(@, keep_versions)))]
    /\ Goto(a, "idle")
    /\ UNCHANGED <<deployvars, webvars, kafkavars>>

TwoAppsNext ==
    \E a \in AppPaths :
        \/ deploy_at(a)
        \/ download_artifact_at(a)
        \/ create_symlink_at(a)
        \/ restart_and_health_at(a)
        \/ rollback_at(a)
        \/ cleanup_old_versions_at(a)

TwoAppsSpec == TwoAppsInit /\ [][TwoAppsNext]_vars

\* ------------------------------------------------ the web application
\* app.py: the functions Flask serves, and what users.db holds.  host of
\* /ping goes into a shell command and q of /search into a template that is
\* rendered: what they carry is executed, as the user and inside the process
\* of the application.
SourceViews == [health |-> "healthy", home |-> "Security Vulnerable App"]

NoAnswer == [route |-> "", status |-> 0, body |-> ""]

\* the process is started; users.db has the table when __main__ created it
WebInit ==
    /\ app \in {[running |-> TRUE, views |-> SourceViews,
                 table |-> table, users |-> 0] : table \in BOOLEAN}
    /\ last_response = NoAnswer
    /\ NoDeployment
    /\ NoApps
    /\ NoKafka

\* the answer to a request; a process that is not running gives none
Answer(route, status, body) ==
    last_response' = IF app.running
                  THEN [route |-> route, status |-> status, body |-> body]
                  ELSE [route |-> route, status |-> 0, body |-> ""]

Hosts == {"127.0.0.1", "127.0.0.1; kill $PPID"}

\* subprocess.run(f"ping -c 1 {host}", shell=True)
ping ==
    /\ \E host \in Hosts :
         IF app.running /\ host # "127.0.0.1"
           THEN /\ app' = [app EXCEPT !.running = FALSE]
                /\ last_response' = [route |-> "/ping", status |-> 0, body |-> ""]
           ELSE /\ Answer("/ping", 200, "output")
                /\ UNCHANGED app
    /\ UNCHANGED <<deployvars, twovars, kafkavars>>

Queries == {"test", "{{ expression }}"}

\* render_template_string of a template that contains q: an expression in q
\* is evaluated with the application in its reach
search ==
    /\ \E q \in Queries :
         \/ /\ Answer("/search", 200, q)
            /\ UNCHANGED app
         \/ /\ q # "test"
            /\ app.running
            /\ app' = [app EXCEPT !.views.health = app.views.home]
            /\ Answer("/search", 200, "")
    /\ UNCHANGED <<deployvars, twovars, kafkavars>>

read_file ==
    /\ \E found \in BOOLEAN :
         Answer("/file", 200, IF found THEN "contents" ELSE "File not found")
    /\ UNCHANGED app
    /\ UNCHANGED <<deployvars, twovars, kafkavars>>

\* the INSERT raises without the table, password.encode() without a password
register ==
    /\ \E password \in BOOLEAN :
         IF app.running /\ app.table /\ password
           THEN /\ app.users < MaxUsers
                /\ app' = [app EXCEPT !.users = @ + 1]
                /\ Answer("/register", 200, "User registered")
           ELSE /\ Answer("/register", 500, "")
                /\ UNCHANGED app
    /\ UNCHANGED <<deployvars, twovars, kafkavars>>

health ==
    /\ Answer("/health", 200, app.views.health)
    /\ UNCHANGED app
    /\ UNCHANGED <<deployvars, twovars, kafkavars>>

home ==
    /\ Answer("/", 200, app.views.home)
    /\ UNCHANGED app
    /\ UNCHANGED <<deployvars, twovars, kafkavars>>

WebNext ==
    \/ ping
    \/ search
    \/ read_file
    \/ register
    \/ health
    \/ home

WebSpec == WebInit /\ [][WebNext]_vars

\* ------------------------------------------------ the Kafka consumer
\* EventConsumer on one partition.  The thread of start_consuming polls,
\* submits every polled message to the thread pool and commits; the threads
\* of the pool run process_event.  self.metrics[key] += 1 is a read of the
\* dict, an addition and a write of the dict, and another thread may run in
\* between.  processing_time_total is left out: no other value depends on
\* it.  The process can be killed at any moment.

\* the event types on the topics; main() registers no handler for the second
EventTypes == {"user_activity", "order_cancelled"}

\* self.event_handlers as main() fills it
event_handlers == {"user_activity", "order_created", "order_processed"}

\* a thread of the pool with no call to run
Idle == [pc |-> "idle", event |-> 0, key |-> "", value |-> 0]

\* EventConsumer(...) constructed, connected, self.running = True
KafkaInit ==
    /\ log = <<>>
    /\ position = 0
    /\ committed = 0
    /\ consumer = "poll"
    /\ message_batch = <<>>
    /\ queue = <<>>
    /\ workers = [w \in 1..MaxWorkers |-> Idle]
    /\ metrics = [events_processed |-> 0, events_failed |-> 0]
    /\ processed = {}
    /\ NoDeployment
    /\ NoApps
    /\ NoWeb

\* the process of the consumer has not been killed
Alive == consumer # "crashed"

\* EventProducer.send_event: one more message in the partition
send_event ==
    /\ Len(log) < MaxMessages
    /\ \E event_type \in EventTypes : log' = Append(log, event_type)
    /\ UNCHANGED <<position, committed, consumer, message_batch, queue, workers,
                   metrics, processed>>
    /\ UNCHANGED <<deployvars, twovars, webvars>>

\* message_batch = self.consumer.poll(timeout_ms=1000), at most
\* max_poll_records messages; with an empty batch the loop continues
poll ==
    /\ consumer = "poll"
    /\ \E n \in 1..MaxPollRecords :
         /\ position + n <= Len(log)
         /\ message_batch' = [i \in 1..n |-> position + i]
         /\ position' = position + n
    /\ consumer' = "submit"
    /\ UNCHANGED <<log, committed, queue, workers, metrics, processed>>
    /\ UNCHANGED <<deployvars, twovars, webvars>>

\* self.executor.submit(self.process_event, message.value) for the next
\* message of the batch; after the last one the loop goes on to the commit
submit ==
    /\ consumer = "submit"
    /\ queue' = Append(queue, Head(message_batch))
    /\ message_batch' = Tail(message_batch)
    /\ consumer' = IF Tail(message_batch) = <<>> THEN "commit" ELSE "submit"
    /\ UNCHANGED <<log, position, committed, workers, metrics, processed>>
    /\ UNCHANGED <<deployvars, twovars, webvars>>

\* self.consumer.commit(): the position of the consumer is committed, or the
\* call raises, the error is logged and the loop continues
commit ==
    /\ consumer = "commit"
    /\ \/ committed' = position
       \/ UNCHANGED committed
    /\ consumer' = "poll"
    /\ UNCHANGED <<log, position, message_batch, queue, workers, metrics,
                   processed>>
    /\ UNCHANGED <<deployvars, twovars, webvars>>

\* stop_consuming: self.running = False and the consumer is closed; the
\* shutdown of the pool waits for the calls that were submitted
stop_consuming ==
    /\ consumer = "poll"
    /\ consumer' = "stopped"
    /\ UNCHANGED <<log, position, committed, message_batch, queue, workers,
                   metrics, processed>>
    /\ UNCHANGED <<deployvars, twovars, webvars>>

\* the process is killed: no thread of it runs any more
crash ==
    /\ Alive
    /\ consumer' = "crashed"
    /\ UNCHANGED <<log, position, committed, message_batch, queue, workers,
                   metrics, processed>>
    /\ UNCHANGED <<deployvars, twovars, webvars>>

\* a thread of the pool takes the oldest submitted call
executor_run(w) ==
    /\ Alive
    /\ workers[w].pc = "idle"
    /\ queue # <<>>
    /\ workers' = [workers EXCEPT ![w] = [Idle EXCEPT !.pc = "process_event",
                                                      !.event = Head(queue)]]
    /\ queue' = Tail(queue)
    /\ UNCHANGED <<log, position, committed, consumer, message_batch, metrics,
                   processed>>
    /\ UNCHANGED <<deployvars, twovars, webvars>>

\* what handler(event) does: it returns True, returns False, or raises
HandlerOutcomes == {"True", "False", "raise"}

\* the metric process_event adds one to after the handler
MetricOf(outcome) ==
    IF outcome = "True" THEN "events_processed" ELSE "events_failed"

\* process_event up to the metric: without a handler it returns True at
\* once; otherwise the handler runs and its outcome chooses the metric
process_event(w) ==
    /\ Alive
    /\ workers[w].pc = "process_event"
    /\ IF log[workers[w].event] \notin event_handlers
         THEN /\ workers' = [workers EXCEPT ![w] = Idle]
              /\ processed' = processed \cup {workers[w].event}
         ELSE /\ \E outcome \in HandlerOutcomes :
                   workers' = [workers EXCEPT ![w].pc = "load",
                                              ![w].key = MetricOf(outcome)]
              /\ UNCHANGED processed
    /\ UNCHANGED <<log, position, committed, consumer, message_batch, queue,
                   metrics>>
    /\ UNCHANGED <<deployvars, twovars, webvars>>

\* self.metrics[key] += 1, first half: the thread reads the value
metrics_load(w) ==
    /\ Alive
    /\ workers[w].pc = "load"
    /\ workers' = [workers EXCEPT ![w].pc = "store",
                                  ![w].value = metrics[workers[w].key]]
    /\ UNCHANGED <<log, position, committed, consumer, message_batch, queue,
                   metrics, processed>>
    /\ UNCHANGED <<deployvars, twovars, webvars>>

\* self.metrics[key] += 1, second half: the thread writes the value it read
\* plus one, and process_event returns
metrics_store(w) ==
    /\ Alive
    /\ workers[w].pc = "store"
    /\ metrics' = [metrics EXCEPT ![workers[w].key] = workers[w].value + 1]
    /\ processed' = processed \cup {workers[w].event}
    /\ workers' = [workers EXCEPT ![w] = Idle]
    /\ UNCHANGED <<log, position, committed, consumer, message_batch, queue>>
    /\ UNCHANGED <<deployvars, twovars, webvars>>

KafkaNext ==
    \/ send_event
    \/ poll
    \/ submit
    \/ commit
    \/ stop_consuming
    \/ crash
    \/ \E w \in 1..MaxWorkers :
         \/ executor_run(w)
         \/ process_event(w)
         \/ metrics_load(w)
         \/ metrics_store(w)

KafkaSpec == KafkaInit /\ [][KafkaNext]_vars

\* ====================================================== properties

Invoked(name) == \E i \in 1..Len(calls) : calls[i] = name

RunEnded == pc \in {"done", "fatal"}

\* the step of the run that raised into the except clause of deploy()
SwitchFailed == health_ok = "unset" /\ error \in {"remove failed", "symlink failed"}
RestartFailed == error = "Failed to restart service"
HealthFailed == health_ok = "false"

\* the run died of an error raised while rollback repointed the link
RollbackRaised == pc = "fatal" /\ failure \in {"remove failed", "symlink failed"}

\* a run of target T over a current version P # T whose directory exists, with
\* rollback enabled, that came as far as a failed health check, and has ended
C1_Case ==
    /\ RunEnded
    /\ HealthFailed
    /\ params.rollback_on_failure
    /\ current_version # None
    /\ current_version # params.version
    /\ current_version \in Range(start)

C1_RolledBack ==
    /\ current = current_version
    /\ result.returned =>
         /\ result.rollback_occurred
         /\ result.previous_version = current_version
         /\ result.version_deployed = current_version

\* C1 as claimed: after every run whose health check failed (rollback enabled,
\* previous version P on disk) the pointer names P and the record reports the
\* rollback to P.
C1_Original == C1_Case => C1_RolledBack

\* C1 as amended: the same, unless the run ended with the error that rollback
\* raised while it repointed the link.
C1_RollbackAfterHealthFailure == (C1_Case /\ ~RollbackRaised) => C1_RolledBack

C1_Witness ==
    /\ C1_Case
    /\ pc = "done"
    /\ result.rollback_occurred
    /\ result.version_deployed = current_version
    /\ current = current_version

\* C2: when the switch or the restart fails, rollback is enabled and a previous
\* version P was read, the run does not end with that failure but invokes
\* rollback(P); when rollback returns true the pointer names P at the end of
\* the run and the record has rollback_occurred = true.
C2_SwitchOrRestartFailureRollsBack ==
    (/\ RunEnded
     /\ SwitchFailed \/ RestartFailed
     /\ params.rollback_on_failure
     /\ current_version # None)
    => /\ Invoked("rollback")
       /\ failure # "Deployment failed: " \o error
       /\ rb_result = <<TRUE>> =>
            /\ current = current_version
            /\ result.returned => result.rollback_occurred

C2_Witness ==
    /\ pc = "done"
    /\ SwitchFailed
    /\ error = "symlink failed"
    /\ rb_result = <<TRUE>>
    /\ result.rollback_occurred
    /\ current = current_version

\* C3 as claimed: the cleanup step of a run never removes the (completely
\* staged) release directory that the current pointer names.
C3_Original ==
    [][(/\ pc = "cleanup_old_versions"
        /\ current # None
        /\ Exists(current)
        /\ current \notin partial)
         => current \in Range(releases')]_vars

\* C4 as claimed: between runs the pointer is absent or names a release
\* directory that exists.
C4_Original == pc \in Terminal => (current = None \/ Exists(current))

\* C5 as claimed: a call of deploy with the version of the call before it
\* returns changed = false at once, whatever the call before it did.
C5_Original ==
    [][(pc = "idle" /\ pc' # "idle" /\ params'.version = last_version)
         => (pc' = "done" /\ result'.returned /\ ~result'.changed)]_vars

\* C5 as amended: a call of deploy with a version that the pointer names and
\* whose release directory exists returns changed = false and invokes no
\* staging, switch, restart, health check or cleanup; the file system is as
\* it was.
C5_Idempotent ==
    (/\ pc # "idle"
     /\ current_version = params.version
     /\ params.version \in Range(start))
    => /\ pc = "done"
       /\ result.returned
       /\ ~result.changed
       /\ result.version_deployed = params.version
       /\ calls = <<>>
       /\ releases = start
       /\ current = current_version

C5_Witness ==
    /\ pc = "done"
    /\ last_version = params.version
    /\ current_version = params.version
    /\ result.returned
    /\ result.health_check_status = "Already deployed"
    /\ ~result.changed

\* C6 as claimed: a pointer that exists is replaced in one step; no state in
\* which it is absent follows a state in which it is there.
C6_Original == [][current # None => current' # None]_vars

\* C7 as claimed: a run in which rollback returned false returns no record.
C7_Original == (\E i \in 1..Len(rb_result) : ~rb_result[i]) => pc # "done"

\* C8 as claimed: with rollback disabled, a run whose switch, restart or
\* health check failed ends fatally.
C8_Original ==
    (/\ RunEnded
     /\ ~params.rollback_on_failure
     /\ SwitchFailed \/ RestartFailed \/ HealthFailed)
    => pc = "fatal"

\* C9: a run that found no pointer at its start and whose restart failed ends
\* fatally, with the restart failure as its error, and never invokes rollback.
C9_FirstDeploymentRestartFailureIsFatal ==
    (/\ RunEnded
     /\ current_version = None
     /\ RestartFailed)
    => /\ pc = "fatal"
       /\ failure = "Deployment failed: Failed to restart service"
       /\ ~Invoked("rollback")
       /\ ~result.returned

C9_Witness ==
    /\ pc = "fatal"
    /\ current_version = None
    /\ RestartFailed
    /\ params.rollback_on_failure
    /\ current = params.version

StagingMessages == {"Failed to download artifact", "Failed to extract artifact"}

StagingFailed == error \in StagingMessages \/ failure \in StagingMessages

\* C10: a run whose download or extraction failed is over at once with that
\* error: the pointer is the one read at the start, and the run has invoked no
\* switch, restart, health check or rollback.
C10_StagingFailureIsFatal ==
    StagingFailed
    => /\ pc = "fatal"
       /\ failure \in StagingMessages
       /\ ~result.returned
       /\ current = current_version
       /\ \A name \in {"create_symlink", "remove", "symlink", "restart_service",
                       "systemctl", "health_check", "get", "rollback"} :
            ~Invoked(name)

C10_Witness ==
    /\ pc = "fatal"
    /\ failure = "Failed to extract artifact"
    /\ current_version # None
    /\ params.rollback_on_failure
    /\ Invoked("tar")

\* C11 as claimed: a run whose download or extraction failed leaves no
\* directory of that version under releases/.
C11_Original ==
    (pc = "fatal" /\ failure \in StagingMessages) => ~Exists(params.version)

\* C12 as claimed: the switch succeeds only when the release directory of the
\* target exists; the pointer is never put on a missing directory.
C12_Original == pc = "restart_service" => Exists(current)

\* the keep newest of the directories
Newest(dirs, keep) ==
    {dirs[i] : i \in {j \in 1..Len(dirs) : j > Len(dirs) - keep}}

\* C13 as claimed: pruning that completes retains exactly the keep_versions
\* newest release directories plus the one the pointer names.
C13_Original ==
    [][(pc = "cleanup_old_versions" /\ pc' = "done")
         => Range(releases') =
              Newest(releases, params.keep_versions)
                \cup ({current} \cap Range(releases))]_vars

\* C14 as claimed: every run that got past the test of "already deployed" has
\* run the cleanup when it ends.
C14_Original ==
    (RunEnded /\ Invoked("download_artifact")) => Invoked("cleanup_old_versions")

\* C15 as claimed: no run ends with the error of a directory that cleanup
\* could not delete.
C15_Original == failure # "rmtree failed"

\* C16 as claimed: when the restart inside rollback fails, rollback returns
\* false and the run does not report a rollback.
C16_Original ==
    rb_restart = "false" => (~rollback_occurred /\ TRUE \notin Range(rb_result))

\* C17: rollback called with no previous version, or with one whose release
\* directory is missing, returns false and touches nothing: the pointer and the
\* directories are as they were and no restart is made.
C17_RollbackFailsClosed ==
    [][(/\ pc = "rollback"
        /\ current_version = None \/ current_version \notin Range(releases))
         => /\ rb_result' = Append(rb_result, FALSE)
            /\ ~rollback_occurred'
            /\ current' = current
            /\ releases' = releases
            /\ rb_restart' = rb_restart
            /\ calls' = Append(calls, "rollback")
            /\ pc' = "cleanup_old_versions"]_vars

C17_Witness ==
    /\ pc = "cleanup_old_versions"
    /\ rb_result = <<FALSE>>
    /\ current_version # None
    /\ ~Exists(current_version)
    /\ current = params.version
    /\ ~Invoked("systemctl")

\* C18: without a URL health_check answers healthy and requests nothing; with
\* one, every request is made before the timeout has elapsed, a request that
\* fails is followed by the next one, healthy is answered exactly when the
\* last request got 200, and unhealthy only once the timeout has elapsed.
C18_HealthProbeResult ==
    pc = "health_done" =>
      IF params.health_check_url \in {"", "absent"}
        THEN /\ health_ok = "true"
             /\ probes = <<>>
             /\ ~Invoked("get")
        ELSE /\ \A i \in 1..Len(probes) :
                  /\ probes[i].at < params.health_check_timeout
                  /\ i < Len(probes) => probes[i].response # "200"
             /\ health_ok = "true" <=>
                  (probes # <<>> /\ probes[Len(probes)].response = "200")
             /\ health_ok = "false" <=>
                  (/\ elapsed >= params.health_check_timeout
                   /\ \A i \in 1..Len(probes) : probes[i].response # "200")

C18_Witness ==
    /\ pc = "health_done"
    /\ health_ok = "true"
    /\ Len(probes) = 2
    /\ probes[1].response = "exception"
    /\ probes[2].response = "200"

\* C19 as claimed: health_check returns no later than timeout + one poll
\* interval after it started.
C19_Original ==
    pc = "health_done" => elapsed <= params.health_check_timeout + PollInterval

\* C20 as claimed: a run whose configuration gives no health_check_url makes
\* no request and cannot find the health check failed.
C20_Original ==
    (pc # "idle" /\ config_url = "absent")
    => (~Invoked("get") /\ probes = <<>> /\ health_ok # "false")

\* C20 as amended: that holds of a run whose configuration gives the empty
\* string; a run whose configuration gives no health_check_url probes the
\* default URL.
C20_EmptyUrlDisablesHealthCheck ==
    /\ (pc # "idle" /\ config_url = "")
       => /\ ~Invoked("get")
          /\ probes = <<>>
          /\ health_ok # "false"
          /\ rb_from # "health"
    /\ (pc # "idle" /\ config_url = "absent")
       => /\ params.health_check_url = "url"
          /\ pc = "health_done" => (health_ok = "false" \/ probes # <<>>)

C20_Witness ==
    /\ config_url = ""
    /\ pc = "done"
    /\ result.returned
    /\ result.health_check_status = "No health check URL provided"
    /\ ~result.rollback_occurred

\* C21 as claimed: in every record deploy() returns, version_deployed is the
\* version the current pointer names at the end of the run (the target, or
\* the previous version after a rollback), and previous_version is present
\* exactly when a rollback occurred.
C21_Original ==
    (pc = "done" /\ result.returned)
    => /\ result.version_deployed = current
       /\ result.version_deployed =
            (IF result.rollback_occurred THEN current_version ELSE params.version)
       /\ (result.previous_version # None) <=> result.rollback_occurred

LastCall == IF calls = <<>> THEN "" ELSE calls[Len(calls)]

\* C23 as claimed: the switch starts only after staging returned without
\* error, the restart only after the link was made, the health check only
\* after the restart succeeded, rollback only after the switch, the restart or
\* the health check failed, and cleanup only after all of them.
C23_Original ==
    /\ pc = "download_artifact" => (calls = <<>> /\ releases = start)
    /\ pc = "create_symlink"
         => (LastCall \in {"download_artifact", "tar"} /\ error = "" /\ failure = "")
    /\ pc = "restart_service" => (LastCall = "symlink" /\ current = params.version)
    /\ pc = "health_check"
         => (LastCall \in {"restart_service", "systemctl"}
             /\ service \in {"active", "not called"})
    /\ pc = "rollback" => (SwitchFailed \/ RestartFailed \/ HealthFailed)
    /\ pc = "cleanup_old_versions"
         => (~Invoked("cleanup_old_versions")
             /\ (health_ok # "unset" \/ rb_result # <<>>))

\* the run found the directory of its target on disk, and another version (or
\* none) under the pointer
StaleRelease ==
    /\ pc # "idle"
    /\ params.version \in Range(start)
    /\ current_version # params.version

\* C24: when the release directory of the target exists and the pointer does
\* not name it, nothing is downloaded or extracted and the directories stay as
\* they were until cleanup, while the switch, the restart and the health check
\* are made: when they succeed the run ends with the pointer on the target.
C24_StaleReleaseIsReused ==
    StaleRelease
    => /\ ~Invoked("wget")
       /\ ~Invoked("tar")
       /\ ~Invoked("cleanup_old_versions") => releases = start
       /\ (pc \in {"cleanup_old_versions", "done"} /\ health_ok = "true")
            => /\ current = params.version
               /\ Invoked("create_symlink")
               /\ Invoked("restart_service")
               /\ Invoked("health_check")
       /\ (pc = "done" /\ health_ok = "true")
            => /\ result.returned
               /\ result.version_deployed = params.version
               /\ ~result.rollback_occurred

C24_Witness ==
    /\ StaleRelease
    /\ params.artifact_url
    /\ current_version # None
    /\ pc = "done"
    /\ health_ok = "true"
    /\ current = params.version

\* C25 as claimed: the record of a run that reached the switch step has
\* changed = true, and a record with changed = false is returned only by a run
\* that left the pointer and the release directories as it found them.
C25_Original ==
    (pc = "done" /\ result.returned)
    => /\ Invoked("create_symlink") => result.changed
       /\ ~result.changed
            => (releases = start /\ ~Invoked("remove") /\ ~Invoked("symlink"))

\* C26: the restart step of deploy() goes on to the health check only when
\* systemctl restarted the service and reported it active, or when there is no
\* service_name, in which case systemctl is not called; a failed restart
\* command, an inactive service and an exception all raise the restart
\* failure into the except clause.
C26_RestartStepResult ==
    /\ pc = "health_check" => service \in {"active", "not called"}
    /\ service \in {"restart_failed", "inactive", "exception"}
         => (pc = "except" /\ error = "Failed to restart service")
    /\ service = "active" => (params.service_name /\ Invoked("systemctl"))
    /\ service = "not called" => (~params.service_name /\ ~Invoked("systemctl"))
    /\ pc = "health_check" => (service = "not called" <=> ~params.service_name)

C26_Witness ==
    /\ pc = "except"
    /\ service = "inactive"
    /\ error = "Failed to restart service"

Count(name) == Cardinality({i \in 1..Len(calls) : calls[i] = name})

\* C27 as claimed: no run calls rollback twice.
C27_Original == Count("rollback") <= 1

\* C28: health_check is called at most once in a run, and nothing is requested
\* from the URL once rollback has been called.
C28_RollbackNeverProbes ==
    /\ Count("health_check") <= 1
    /\ \A j \in 1..Len(calls) :
         calls[j] \in {"health_check", "get"}
           => \A i \in 1..j : calls[i] # "rollback"

C28_Witness ==
    /\ pc = "done"
    /\ result.returned
    /\ result.rollback_occurred
    /\ Invoked("get")
    /\ Invoked("rollback")

\* C30: a run that is kept running, and whose external calls all return, ends:
\* it stays for ever in one of the two outcomes, a returned record or a fatal
\* error, never both; and the polling loop of health_check is always left.
C30_RunTerminates ==
    /\ <>[](pc \in {"done", "fatal"})
    /\ (pc = "health_loop") ~> (pc = "health_done")
    /\ [](pc = "done" => (result.returned /\ failure = ""))
    /\ [](pc = "fatal" => (~result.returned /\ failure # ""))

C30_Witness ==
    /\ pc = "done"
    /\ result.returned
    /\ health_ok = "false"
    /\ Count("get") >= 2

\* C22 as claimed: whatever was requested before, GET /health is answered
\* with status 200 and 'healthy', and GET / with status 200 and
\* 'Security Vulnerable App'.
C22_Original ==
    /\ last_response.route = "/health"
         => (last_response.status = 200 /\ last_response.body = "healthy")
    /\ last_response.route = "/"
         => (last_response.status = 200 /\ last_response.body = "Security Vulnerable App")

\* C29: a step of the run on one app_path leaves the releases directory and
\* the pointer of every other app_path as they were, and the current version
\* a run reads is the one its own pointer names.
C29_ApplicationsAreIndependent ==
    [][\A a \in AppPaths :
         /\ runs'[a] = runs[a]
              => /\ disk'[<<a, "releases">>] = disk[<<a, "releases">>]
                 /\ disk'[<<a, "current">>] = disk[<<a, "current">>]
         /\ (runs[a].pc = "idle" /\ runs'[a].pc # "idle")
              => runs'[a].current_version =
                   (IF disk[<<a, "current">>] = <<>>
                      THEN None
                      ELSE disk[<<a, "current">>][3])]_vars

C29_Witness ==
    /\ runs["/opt/a"].pc = "cleanup_old_versions"
    /\ runs["/opt/b"].pc = "rollback"
    /\ disk[<<"/opt/a", "current">>] = <<"/opt/a", "releases", runs["/opt/a"].version>>
    /\ disk[<<"/opt/b", "current">>] # <<>>
    /\ Len(disk[<<"/opt/a", "releases">>]) > Len(disk[<<"/opt/b", "releases">>])

\* the messages handed to the thread pool
Submitted == (1..position) \ Range(message_batch)

\* C31 as claimed: an offset is committed only after process_event has
\* finished for the messages below it, so when the consumer is killed no
\* message below the committed offset is unprocessed.
C31_Original ==
    consumer = "crashed" => \A offset \in 1..committed : offset \in processed

\* C32 as claimed: once process_event has returned for every submitted
\* message, events_processed + events_failed is the number of submitted
\* messages whose event type has a registered handler.
C32_Original ==
    Submitted \subseteq processed
    => metrics.events_processed + metrics.events_failed =
         Cardinality({offset \in Submitted : log[offset] \in event_handlers})

====
